---- MODULE Spec2Model ----
(***************************************************************************)
(* Company / Employee record service.  The repository holds four variants  *)
(* of the same HTTP API over one relational store:                         *)
(*   "generated"  src/generated_file.py  (company_app.py, employee_app.py) *)
(*   "converted"  src/converted_file.py  (single module, SQLite engine)    *)
(*   "input"      src/input.py           (models / schemas / routers)      *)
(*   "script"     src/script.py          (create and list only)            *)
(* A behaviour runs one variant against one store.  Every action is one    *)
(* HTTP request handled from validation to response.                       *)
(*                                                                         *)
(* The state is the store; a request's response is the value of its        *)
(* handler operator in the state the request meets.                        *)
(*                                                                         *)
(* Columns that no constraint and no conversion reads are represented by   *)
(* one of them: Employee.first_name stands for last_name, salary and       *)
(* is_active as well; Company.is_active is left out.                       *)
(***************************************************************************)
EXTENDS Integers, FiniteSets, Sequences, TLC

\* ---------------------------------------------------------------- bounds
MaxCompanyId == 2
MaxEmployeeId == 2

\* ---------------------------------------------------------------- values
Variants == {"generated", "converted", "input", "script"}

\* SQL NULL / Python None of a string or date column.
NULL == "NULL"
\* Python None of the integer column company_id.
NullId == 0

Names == {"Acme"}
RegNumbers == {"R1"}
Dates == {"2020-01-01"}
FirstNames == {"Ann", "Bob"}
Emails == {"a@b.com", "c@d.com"}
CompanyFields == {"name", "registration_number", "founded_date"}
EmployeeFields == {"company_id", "first_name", "email"}

VARIABLES
    variant,      \* which of the four implementations serves the requests
    companies,    \* company table: id -> row
    employees,    \* employee table: id -> row
    companySeq,   \* last id the engine's sequence handed out for company
    employeeSeq,  \* last id the engine's sequence handed out for employee
    race          \* two requests in flight, each between its check and its commit

vars == <<variant, companies, employees, companySeq, employeeSeq, race>>

\* ------------------------------------------------------- request bodies
\* A JSON body: `fields` are the keys the client supplied (what
\* dict(exclude_unset=True) keeps); a key not supplied carries the schema
\* default.
CompanyPayloads ==
    UNION { { [fields |-> D, name |-> n, registration_number |-> r,
               founded_date |-> f] :
                n \in (IF "name" \in D THEN Names ELSE {"Acme"}),
                r \in (IF "registration_number" \in D THEN RegNumbers \cup {NULL} ELSE {NULL}),
                f \in (IF "founded_date" \in D THEN Dates \cup {NULL} ELSE {NULL}) } :
            D \in SUBSET CompanyFields }

\* company_id may name a stored company, a company that does not exist, or
\* be JSON null.
CompanyIdValues == 1..(MaxCompanyId + 1)

EmployeeCreatePayloads ==
    [company_id : CompanyIdValues, first_name : FirstNames, email : Emails,
     hire_date : Dates]

EmployeeUpdatePayloads ==
    UNION { { [fields |-> D, company_id |-> c, first_name |-> f, email |-> e] :
                c \in (IF "company_id" \in D THEN CompanyIdValues \cup {NullId} ELSE {NullId}),
                f \in (IF "first_name" \in D THEN FirstNames ELSE {"Ann"}),
                e \in (IF "email" \in D THEN Emails ELSE {"a@b.com"}) } :
            D \in SUBSET EmployeeFields }

\* Query string of a list request: `fields` are the parameters the client
\* sent; one it did not send takes the default of the handler's signature.
ListQueries ==
    UNION { { [fields |-> D, skip |-> s, limit |-> l] :
                s \in (IF "skip" \in D THEN 0..1 ELSE {0}),
                l \in (IF "limit" \in D THEN 1..2 ELSE {0}) } :
            D \in SUBSET {"skip", "limit"} }

NoPagination == [fields |-> {}, skip |-> 0, limit |-> 0]

\* ------------------------------------------------------------- helpers
MaxOf(S) == IF S = {} THEN 0 ELSE CHOOSE m \in S : \A x \in S : x <= m

Remove(table, ids) == [i \in (DOMAIN table) \ ids |-> table[i]]

Put(table, row) == [i \in (DOMAIN table) \cup {row.id} |->
                        IF i = row.id THEN row ELSE table[i]]

EmployeesOf(c) == {e \in DOMAIN employees : employees[e].company_id = c}

NoBody == {}

Response(status, err, cs, es, body) ==
    [status |-> status, err |-> err, companies |-> cs, employees |-> es,
     body |-> body]

Unchanged(status, err) == Response(status, err, companies, employees, NoBody)

\* ------------------------------------------------------ store and schema
\* converted_file.py binds its sessions to SQLite; the other variants import
\* their engine from app.database.
EngineIsSqlite(v) == v = "converted"

\* The relational engine behind app.database enforces the declared foreign
\* keys (spec, section 5).
RelationalEngineEnforcesForeignKeys == TRUE

ForeignKeysNeverEnforced(v) == FALSE

\* SQLite enforces foreign keys only after PRAGMA foreign_keys=ON, which
\* create_engine(DATABASE_URL, connect_args=...) never issues.
ForeignKeysEnforced(v) ==
    IF EngineIsSqlite(v) THEN FALSE ELSE RelationalEngineEnforcesForeignKeys

\* Python type the request/response schema gives founded_date and hire_date.
generated_DateType == "str"
converted_DateType == "str"
input_DateType == "date"
script_DateType == "date"

DateType(v) ==
    CASE v = "generated" -> generated_DateType
      [] v = "converted" -> converted_DateType
      [] v = "input" -> input_DateType
      [] v = "script" -> script_DateType

\* The relational engine behind app.database reads an ISO-8601 string bound
\* to a DATE parameter as that date (spec, section 6: dates travel as
\* YYYY-MM-DD strings).
RelationalEngineParsesDateStrings == TRUE

\* Binding a value to a Date column: SQLite's Date type accepts only
\* datetime.date objects and raises on a str.
DateBindFails(v, d) ==
    /\ d # NULL
    /\ DateType(v) = "str"
    /\ (EngineIsSqlite(v) \/ ~RelationalEngineParsesDateStrings)

\* A Date column loads as a datetime.date object; the response model
\* validates it against the schema's field type, and a str field rejects it.
ResponseDateFails(v, d) == d # NULL /\ DateType(v) = "str"

RegistrationNotUnique(row) == FALSE

\* Column(String(50), unique=True): two rows conflict when they carry the
\* same non-NULL value; NULLs never conflict.
RegistrationTaken(row) ==
    /\ row.registration_number # NULL
    /\ \E i \in (DOMAIN companies) \ {row.id} :
          companies[i].registration_number = row.registration_number

EmailNotUnique(row) == FALSE

\* Column(String(255), unique=True, nullable=False)
EmailTaken(row) ==
    \E i \in (DOMAIN employees) \ {row.id} : employees[i].email = row.email

CompanyIdDeclaredNullable == TRUE

\* company_id = Column(Integer, ForeignKey(..., ondelete='CASCADE'), nullable=False)
CompanyIdNullable == FALSE

\* The relational engine behind app.database generates ids from a sequence
\* (spec, section 3: id is server-generated, unique, immutable).
RelationalEngineNextId(seq) == seq + 1

NewCompanyIdByCount(v) == Cardinality(DOMAIN companies) + 1

\* Primary keys: SQLite's INTEGER PRIMARY KEY (autoincrement=True without
\* sqlite_autoincrement) hands out max(rowid)+1.
NewCompanyId(v) ==
    IF EngineIsSqlite(v) THEN MaxOf(DOMAIN companies) + 1
    ELSE RelationalEngineNextId(companySeq)

NewEmployeeId(v) ==
    IF EngineIsSqlite(v) THEN MaxOf(DOMAIN employees) + 1
    ELSE RelationalEngineNextId(employeeSeq)

\* The error the flush of a company INSERT or UPDATE raises, "none" if none.
CompanyWriteError(v, row) ==
    IF DateBindFails(v, row.founded_date) THEN "bind"
    ELSE IF RegistrationTaken(row) THEN "unique"
    ELSE "none"

\* The error the flush of an employee INSERT or UPDATE raises, "none" if none.
EmployeeWriteError(v, row) ==
    IF DateBindFails(v, row.hire_date) THEN "bind"
    ELSE IF row.company_id = NullId /\ ~CompanyIdNullable THEN "notnull"
    ELSE IF EmailTaken(row) THEN "unique"
    ELSE IF /\ ForeignKeysEnforced(v)
            /\ row.company_id # NullId
            /\ row.company_id \notin DOMAIN companies THEN "fk"
    ELSE "none"

\* response_model serialisation of a row the handler returns.  The write is
\* already committed when it fails.
CompanyResponse(v, okStatus, cs, es, row) ==
    IF ResponseDateFails(v, row.founded_date)
    THEN Response(500, "response", cs, es, NoBody)
    ELSE Response(okStatus, "none", cs, es, {row})

EmployeeResponse(v, okStatus, cs, es, row) ==
    IF ResponseDateFails(v, row.hire_date)
    THEN Response(500, "response", cs, es, NoBody)
    ELSE Response(okStatus, "none", cs, es, {row})

\* --------------------------------------------------- company handlers
\* Company(**company.dict()); db.add; db.commit; db.refresh; return
CreateCompanyHandler(v, p, okStatus) ==
    IF "name" \notin p.fields THEN Unchanged(422, "validation")
    ELSE LET row == [id |-> NewCompanyId(v), name |-> p.name,
                     registration_number |-> p.registration_number,
                     founded_date |-> p.founded_date]
             err == CompanyWriteError(v, row)
         IN IF err # "none" THEN Unchanged(500, err)
            ELSE CompanyResponse(v, okStatus, Put(companies, row), employees, row)

generated_create_company(p) == CreateCompanyHandler("generated", p, 201)
converted_create_company(p) == CreateCompanyHandler("converted", p, 200)
input_create_company(p) == CreateCompanyHandler("input", p, 201)
script_create_company(p) == CreateCompanyHandler("script", p, 200)

\* query(Company).filter(Company.id == company_id).first(); 404 if none
GetCompanyIn(v, cs, id) ==
    IF id \notin DOMAIN cs THEN Response(404, "notfound", cs, employees, NoBody)
    ELSE CompanyResponse(v, 200, cs, employees, cs[id])

GetCompanyHandler(v, id) == GetCompanyIn(v, companies, id)

generated_get_company(id) == GetCompanyHandler("generated", id)
converted_get_company(id) == GetCompanyHandler("converted", id)
input_get_company(id) == GetCompanyHandler("input", id)

\* The row after `for key, value in update_data.items(): setattr(...)`.
ApplyCompanyUpdate(row, p) ==
    [id |-> row.id,
     name |-> IF "name" \in p.fields THEN p.name ELSE row.name,
     registration_number |->
        IF "registration_number" \in p.fields THEN p.registration_number
        ELSE row.registration_number,
     founded_date |->
        IF "founded_date" \in p.fields THEN p.founded_date ELSE row.founded_date]

\* CompanyUpdate(CompanyBase) inherits the required `name`: the body is
\* validated before the handler runs.
UpdateCompanyHandler(v, id, p) ==
    IF "name" \notin p.fields THEN Unchanged(422, "validation")
    ELSE IF id \notin DOMAIN companies THEN Unchanged(404, "notfound")
    ELSE LET row == ApplyCompanyUpdate(companies[id], p)
             err == CompanyWriteError(v, row)
         IN IF err # "none" THEN Unchanged(500, err)
            ELSE CompanyResponse(v, 200, Put(companies, row), employees, row)

generated_update_company(id, p) == UpdateCompanyHandler("generated", id, p)
input_update_company(id, p) == UpdateCompanyHandler("input", id, p)

DeleteCompanyAndAllEmployees(id, okStatus) ==
    IF id \notin DOMAIN companies THEN Unchanged(404, "notfound")
    ELSE Response(okStatus, "none", Remove(companies, {id}), <<>>, NoBody)

\* relationship(..., cascade="all, delete"): the unit of work deletes the
\* company's employees with it.
CascadeDeleteCompany(id, okStatus) ==
    IF id \notin DOMAIN companies THEN Unchanged(404, "notfound")
    ELSE Response(okStatus, "none", Remove(companies, {id}),
                  Remove(employees, EmployeesOf(id)), NoBody)

converted_delete_company(id) == CascadeDeleteCompany(id, 200)
input_delete_company(id) == CascadeDeleteCompany(id, 204)

\* relationship('Company', backref='employees') carries no delete cascade:
\* the unit of work sets company_id of the company's employees to NULL
\* before it deletes the company, which the NOT NULL column refuses.
generated_delete_company(id) ==
    IF id \notin DOMAIN companies THEN Unchanged(404, "notfound")
    ELSE IF EmployeesOf(id) = {}
    THEN Response(200, "none", Remove(companies, {id}), employees, NoBody)
    ELSE IF ~CompanyIdNullable THEN Unchanged(500, "notnull")
    ELSE Response(200, "none", Remove(companies, {id}),
                  [e \in DOMAIN employees |->
                      IF e \in EmployeesOf(id)
                      THEN [employees[e] EXCEPT !.company_id = NullId]
                      ELSE employees[e]],
                  NoBody)

\* -------------------------------------------------- employee handlers
NewEmployeeRow(v, p) ==
    [id |-> NewEmployeeId(v), company_id |-> p.company_id,
     first_name |-> p.first_name, email |-> p.email, hire_date |-> p.hire_date]

\* Employee(**employee.dict()); db.add; db.commit; db.refresh; return
InsertEmployee(v, p, okStatus) ==
    LET row == NewEmployeeRow(v, p)
        err == EmployeeWriteError(v, row)
    IN IF err # "none" THEN Unchanged(500, err)
       ELSE EmployeeResponse(v, okStatus, companies, Put(employees, row), row)

\* query(Company).filter(Company.id == employee.company_id).first()
CompanyExists(c) == c \in DOMAIN companies

generated_create_employee(p) ==
    IF ~CompanyExists(p.company_id) THEN Unchanged(400, "company")
    ELSE InsertEmployee("generated", p, 201)

converted_create_employee(p) ==
    IF ~CompanyExists(p.company_id) THEN Unchanged(404, "company")
    ELSE InsertEmployee("converted", p, 200)

input_create_employee(p) == InsertEmployee("input", p, 201)

script_create_employee(p) == InsertEmployee("script", p, 200)

GetEmployeeHandler(v, id) ==
    IF id \notin DOMAIN employees THEN Unchanged(404, "notfound")
    ELSE EmployeeResponse(v, 200, companies, employees, employees[id])

generated_get_employee(id) == GetEmployeeHandler("generated", id)
converted_get_employee(id) == GetEmployeeHandler("converted", id)
input_get_employee(id) == GetEmployeeHandler("input", id)

\* Keys of the body the update schema declares; a key it does not declare
\* is dropped when the body is parsed.
generated_EmployeeUpdateFields == {"company_id", "first_name", "email"}
input_EmployeeUpdateFields == {"first_name", "email"}

\* The row after `for key, value in update_data.items(): setattr(...)`.
ApplyEmployeeUpdate(row, p, declared) ==
    [id |-> row.id,
     company_id |-> IF "company_id" \in p.fields \cap declared
                    THEN p.company_id ELSE row.company_id,
     first_name |-> IF "first_name" \in p.fields \cap declared
                    THEN p.first_name ELSE row.first_name,
     email |-> IF "email" \in p.fields \cap declared THEN p.email ELSE row.email,
     hire_date |-> row.hire_date]

CommitEmployeeUpdate(v, row) ==
    LET err == EmployeeWriteError(v, row)
    IN IF err # "none" THEN Unchanged(500, err)
       ELSE EmployeeResponse(v, 200, companies, Put(employees, row), row)

generated_update_employee(id, p) ==
    IF id \notin DOMAIN employees THEN Unchanged(404, "notfound")
    ELSE IF /\ "company_id" \in p.fields
            /\ p.company_id # NullId
            /\ ~CompanyExists(p.company_id)
    THEN Unchanged(400, "company")
    ELSE CommitEmployeeUpdate("generated",
            ApplyEmployeeUpdate(employees[id], p, generated_EmployeeUpdateFields))

input_update_employee(id, p) ==
    IF id \notin DOMAIN employees THEN Unchanged(404, "notfound")
    ELSE CommitEmployeeUpdate("input",
            ApplyEmployeeUpdate(employees[id], p, input_EmployeeUpdateFields))

DeleteEmployeeHandler(id, okStatus) ==
    IF id \notin DOMAIN employees THEN Unchanged(404, "notfound")
    ELSE Response(okStatus, "none", companies, Remove(employees, {id}), NoBody)

generated_delete_employee(id) == DeleteEmployeeHandler(id, 200)
converted_delete_employee(id) == DeleteEmployeeHandler(id, 200)
input_delete_employee(id) == DeleteEmployeeHandler(id, 204)

\* ---------------------------------------------------------------- lists
\* skip: int = 0, limit: int = 100 / limit: int = 10
generated_DefaultLimit == 100
converted_DefaultLimit == 10

\* db.query(Model) without ORDER BY returns the rows in the order the engine
\* stores them: by id, the order they were inserted in (spec, section 6).
StorageOrder(table) ==
    LET Stored(i) == i \in DOMAIN table
        ids == SelectSeq([i \in 1..MaxOf(DOMAIN table) |-> i], Stored)
    IN [k \in 1..Len(ids) |-> table[ids[k]]]

\* .offset(skip).limit(limit).all()
OffsetLimit(rows, skip, limit) ==
    LET last == IF skip + limit < Len(rows) THEN skip + limit ELSE Len(rows)
    IN SubSeq(rows, skip + 1, last)

\* response_model=List[...]: every row of the page is validated against the
\* response schema.
ListResponse(v, page, dates) ==
    IF \E k \in 1..Len(page) : ResponseDateFails(v, dates[page[k].id])
    THEN Response(500, "response", companies, employees, <<>>)
    ELSE Response(200, "none", companies, employees, page)

PagedList(v, table, dates, q, defaultLimit) ==
    ListResponse(v,
                 OffsetLimit(StorageOrder(table),
                             IF "skip" \in q.fields THEN q.skip ELSE 0,
                             IF "limit" \in q.fields THEN q.limit ELSE defaultLimit),
                 dates)

FoundedDates == [c \in DOMAIN companies |-> companies[c].founded_date]
HireDates == [e \in DOMAIN employees |-> employees[e].hire_date]

generated_read_companies(q) ==
    PagedList("generated", companies, FoundedDates, q, generated_DefaultLimit)

converted_list_companies(q) ==
    PagedList("converted", companies, FoundedDates, q, converted_DefaultLimit)

\* db.query(Company).all(): no pagination parameter is declared.
input_get_companies == ListResponse("input", StorageOrder(companies), FoundedDates)
script_get_companies == ListResponse("script", StorageOrder(companies), FoundedDates)

generated_read_employees(q) ==
    PagedList("generated", employees, HireDates, q, generated_DefaultLimit)

converted_list_employees(q) ==
    PagedList("converted", employees, HireDates, q, converted_DefaultLimit)

input_get_employees == ListResponse("input", StorageOrder(employees), HireDates)
script_get_employees == ListResponse("script", StorageOrder(employees), HireDates)

\* No request is in flight: every request runs from its check to its commit
\* before the next one starts.
NoRace == [reqs |-> <<>>, pc |-> <<>>, seen |-> <<>>, start |-> <<>>, trace |-> <<>>]

\* ------------------------------------------------------------- requests
\* One request, from the route to the response r: the tables become what
\* the handler committed and the sequences move past the ids it inserted.
Serve(r) ==
    /\ MaxOf(DOMAIN r.companies) <= MaxCompanyId
    /\ MaxOf(DOMAIN r.employees) <= MaxEmployeeId
    /\ companies' = r.companies
    /\ employees' = r.employees
    /\ companySeq' = IF EngineIsSqlite(variant) THEN companySeq
                     ELSE MaxOf({companySeq} \cup DOMAIN r.companies)
    /\ employeeSeq' = IF EngineIsSqlite(variant) THEN employeeSeq
                      ELSE MaxOf({employeeSeq} \cup DOMAIN r.employees)
    /\ UNCHANGED <<variant, race>>

CompanyIds == 1..(MaxCompanyId + 1)
EmployeeIds == 1..(MaxEmployeeId + 1)

\* The variants that register each route.
CrudVariants == {"generated", "converted", "input"}
UpdateVariants == {"generated", "input"}

\* POST /companies/
route_create_company(p) ==
    CASE variant = "generated" -> generated_create_company(p)
      [] variant = "converted" -> converted_create_company(p)
      [] variant = "input" -> input_create_company(p)
      [] variant = "script" -> script_create_company(p)

\* GET /companies/{company_id}
route_get_company(id) ==
    CASE variant = "generated" -> generated_get_company(id)
      [] variant = "converted" -> converted_get_company(id)
      [] variant = "input" -> input_get_company(id)

\* PUT /companies/{company_id}
route_update_company(id, p) ==
    CASE variant = "generated" -> generated_update_company(id, p)
      [] variant = "input" -> input_update_company(id, p)

\* DELETE /companies/{company_id}
route_delete_company(id) ==
    CASE variant = "generated" -> generated_delete_company(id)
      [] variant = "converted" -> converted_delete_company(id)
      [] variant = "input" -> input_delete_company(id)

\* POST /employees/
route_create_employee(p) ==
    CASE variant = "generated" -> generated_create_employee(p)
      [] variant = "converted" -> converted_create_employee(p)
      [] variant = "input" -> input_create_employee(p)
      [] variant = "script" -> script_create_employee(p)

\* GET /employees/{employee_id}
route_get_employee(id) ==
    CASE variant = "generated" -> generated_get_employee(id)
      [] variant = "converted" -> converted_get_employee(id)
      [] variant = "input" -> input_get_employee(id)

\* PUT /employees/{employee_id}
route_update_employee(id, p) ==
    CASE variant = "generated" -> generated_update_employee(id, p)
      [] variant = "input" -> input_update_employee(id, p)

\* DELETE /employees/{employee_id}
route_delete_employee(id) ==
    CASE variant = "generated" -> generated_delete_employee(id)
      [] variant = "converted" -> converted_delete_employee(id)
      [] variant = "input" -> input_delete_employee(id)

\* GET /companies/
route_list_companies(q) ==
    CASE variant = "generated" -> generated_read_companies(q)
      [] variant = "converted" -> converted_list_companies(q)
      [] variant = "input" -> input_get_companies
      [] variant = "script" -> script_get_companies

\* GET /employees/
route_list_employees(q) ==
    CASE variant = "generated" -> generated_read_employees(q)
      [] variant = "converted" -> converted_list_employees(q)
      [] variant = "input" -> input_get_employees
      [] variant = "script" -> script_get_employees

create_company ==
    /\ variant \in Variants
    /\ \E p \in CompanyPayloads : Serve(route_create_company(p))

get_company ==
    /\ variant \in CrudVariants
    /\ \E id \in CompanyIds : Serve(route_get_company(id))

update_company ==
    /\ variant \in UpdateVariants
    /\ \E id \in CompanyIds, p \in CompanyPayloads :
          Serve(route_update_company(id, p))

delete_company ==
    /\ variant \in CrudVariants
    /\ \E id \in CompanyIds : Serve(route_delete_company(id))

create_employee ==
    /\ variant \in Variants
    /\ \E p \in EmployeeCreatePayloads : Serve(route_create_employee(p))

get_employee ==
    /\ variant \in CrudVariants
    /\ \E id \in EmployeeIds : Serve(route_get_employee(id))

update_employee ==
    /\ variant \in UpdateVariants
    /\ \E id \in EmployeeIds, p \in EmployeeUpdatePayloads :
          Serve(route_update_employee(id, p))

delete_employee ==
    /\ variant \in CrudVariants
    /\ \E id \in EmployeeIds : Serve(route_delete_employee(id))

list_companies ==
    /\ variant \in Variants
    /\ \E q \in ListQueries : Serve(route_list_companies(q))

list_employees ==
    /\ variant \in Variants
    /\ \E q \in ListQueries : Serve(route_list_employees(q))

\* Base.metadata.create_all: both tables empty, no request served yet.
Init ==
    /\ variant \in Variants
    /\ companies = <<>>
    /\ employees = <<>>
    /\ companySeq = 0
    /\ employeeSeq = 0
    /\ race = NoRace

Next ==
    \/ create_company
    \/ get_company
    \/ update_company
    \/ delete_company
    \/ create_employee
    \/ get_employee
    \/ update_employee
    \/ delete_employee
    \/ list_companies
    \/ list_employees

Spec == Init /\ [][Next]_vars

\* ----------------------------------------------- two requests in flight
\* Each handler first queries the rows it depends on (its existence check)
\* and later flushes and commits.  Two sessions are independent: between the
\* check of one request and its commit the other request may check and
\* commit.  A step works on the store S its session meets.
Store ==
    [companies |-> companies, employees |-> employees, employeeSeq |-> employeeSeq]

NoFields ==
    [fields |-> {}, company_id |-> NullId, first_name |-> "Ann",
     email |-> "a@b.com", hire_date |-> NULL]

\* POST /employees/ and PUT /employees/{id} requests of one in-flight pair.
EmployeeWrites(v) ==
    { [op |-> "create_employee", id |-> 0,
       p |-> [fields |-> EmployeeFields, company_id |-> c, first_name |-> "Ann",
              email |-> m, hire_date |-> d]] :
        c \in CompanyIdValues, m \in Emails, d \in Dates }
    \cup
    (IF v \in UpdateVariants
     THEN { [op |-> "update_employee", id |-> i,
             p |-> [fields |-> u.fields, company_id |-> u.company_id,
                    first_name |-> u.first_name, email |-> u.email,
                    hire_date |-> NULL]] :
              i \in DOMAIN employees,
              u \in {u \in EmployeeUpdatePayloads : Cardinality(u.fields) = 1} }
     ELSE {})

\* DELETE /companies/{id} requests of one in-flight pair.
CompanyDeletes(v) ==
    IF v \in CrudVariants
    THEN { [op |-> "delete_company", id |-> c, p |-> NoFields] : c \in DOMAIN companies }
    ELSE {}

\* create_employee of generated_file.py and converted_file.py queries the
\* company first; input.py and script.py insert without a check.
ChecksCompany(v) == v \in {"generated", "converted"}

\* relationship(..., cascade="all, delete"): db.delete(company) loads the
\* company's employees and marks them deleted with it.
CascadesInSession(v) == v \in {"converted", "input"}

EmployeeUpdateFields(v) ==
    IF v = "generated" THEN generated_EmployeeUpdateFields
    ELSE input_EmployeeUpdateFields

\* The queries of a handler before its flush: whether the handler goes on
\* (go) or raises HTTPException, the row it loaded, and the employees
\* db.delete(company) loaded.
TxCheck(v, req, S) ==
    CASE req.op = "create_employee" ->
            [go |-> ChecksCompany(v) => req.p.company_id \in DOMAIN S.companies,
             row |-> {}, children |-> {}]
      [] req.op = "update_employee" ->
            [go |-> /\ req.id \in DOMAIN S.employees
                    /\ (/\ v = "generated"
                        /\ "company_id" \in req.p.fields
                        /\ req.p.company_id # NullId) =>
                            req.p.company_id \in DOMAIN S.companies,
             row |-> IF req.id \in DOMAIN S.employees
                     THEN {S.employees[req.id]} ELSE {},
             children |-> {}]
      [] req.op = "delete_company" ->
            [go |-> req.id \in DOMAIN S.companies,
             row |-> {},
             children |-> IF CascadesInSession(v)
                          THEN {e \in DOMAIN S.employees :
                                   S.employees[e].company_id = req.id}
                          ELSE {}]

\* EmployeeWriteError against the store the flush meets.
TxEmployeeWriteError(v, S, row) ==
    IF DateBindFails(v, row.hire_date) THEN "bind"
    ELSE IF row.company_id = NullId /\ ~CompanyIdNullable THEN "notnull"
    ELSE IF \E i \in (DOMAIN S.employees) \ {row.id} :
                S.employees[i].email = row.email THEN "unique"
    ELSE IF /\ ForeignKeysEnforced(v)
            /\ row.company_id # NullId
            /\ row.company_id \notin DOMAIN S.companies THEN "fk"
    ELSE "none"

\* db.add(db_employee); db.commit()
TxInsertEmployee(v, p, S) ==
    LET row == [id |-> IF EngineIsSqlite(v) THEN MaxOf(DOMAIN S.employees) + 1
                       ELSE RelationalEngineNextId(S.employeeSeq),
                company_id |-> p.company_id, first_name |-> p.first_name,
                email |-> p.email, hire_date |-> p.hire_date]
    IN IF TxEmployeeWriteError(v, S, row) # "none" THEN S
       ELSE [S EXCEPT !.employees = Put(@, row),
                      !.employeeSeq = IF EngineIsSqlite(v) THEN @ ELSE row.id]

\* setattr loop; db.commit(): the UPDATE carries the columns whose value
\* differs from the loaded one and is addressed to the row's id; when the
\* row is gone it matches nothing and the flush raises.
TxUpdateEmployee(v, id, p, loaded, S) ==
    LET supplied == p.fields \cap EmployeeUpdateFields(v)
        changed == {f \in supplied : p[f] # loaded[f]}
        cur == S.employees[id]
        row == [id |-> id,
                company_id |-> IF "company_id" \in changed
                               THEN p.company_id ELSE cur.company_id,
                first_name |-> IF "first_name" \in changed
                               THEN p.first_name ELSE cur.first_name,
                email |-> IF "email" \in changed THEN p.email ELSE cur.email,
                hire_date |-> cur.hire_date]
    IN IF id \notin DOMAIN S.employees \/ changed = {} THEN S
       ELSE IF TxEmployeeWriteError(v, S, row) # "none" THEN S
       ELSE [S EXCEPT !.employees = Put(@, row)]

NoOnDeleteCascade(v, es, c) == es

\* ForeignKey("company.id", ondelete="CASCADE"): an engine that enforces the
\* foreign key deletes the rows that still reference the deleted company.
OnDeleteCascade(v, es, c) ==
    IF ForeignKeysEnforced(v)
    THEN Remove(es, {e \in DOMAIN es : es[e].company_id = c})
    ELSE es

\* db.delete(company); db.commit()
TxDeleteCompany(v, c, children, S) ==
    LET now == {e \in DOMAIN S.employees : S.employees[e].company_id = c}
    IN IF c \notin DOMAIN S.companies THEN S
       ELSE IF CascadesInSession(v)
       THEN [S EXCEPT !.companies = Remove(@, {c}),
                      !.employees = OnDeleteCascade(v, Remove(@, children), c)]
       ELSE IF now = {}
       THEN [S EXCEPT !.companies = Remove(@, {c})]
       ELSE IF ~CompanyIdNullable THEN S
       ELSE [S EXCEPT !.companies = Remove(@, {c}),
                      !.employees = [e \in DOMAIN @ |->
                                        IF e \in now
                                        THEN [@[e] EXCEPT !.company_id = NullId]
                                        ELSE @[e]]]

\* The flush and commit of a handler whose check let it go on.
TxCommit(v, req, seen, S) ==
    IF ~seen.go THEN S
    ELSE CASE req.op = "create_employee" -> TxInsertEmployee(v, req.p, S)
           [] req.op = "update_employee" ->
                 TxUpdateEmployee(v, req.id, req.p, CHOOSE r \in seen.row : TRUE, S)
           [] req.op = "delete_company" ->
                 TxDeleteCompany(v, req.id, seen.children, S)

\* A request running alone: its commit meets the store its check read.
TxAtomic(v, req, S) == TxCommit(v, req, TxCheck(v, req, S), S)

NotSeen == [go |-> FALSE, row |-> {}, children |-> {}]

Racing == Len(race.reqs) = 2

\* Creates that fill the store before two requests race.
seed_company ==
    /\ ~Racing
    /\ \E p \in {p \in CompanyPayloads : p.fields = {"name"}} :
          Serve(route_create_company(p))

seed_employee ==
    /\ ~Racing
    /\ \E p \in {p \in EmployeeCreatePayloads : p.first_name = "Ann"} :
          Serve(route_create_employee(p))

\* An employee write arrives together with a company delete or with
\* another employee write.
race_begin ==
    /\ ~Racing
    /\ \E a \in EmployeeWrites(variant),
          b \in CompanyDeletes(variant) \cup EmployeeWrites(variant) :
          race' = [reqs |-> <<a, b>>, pc |-> <<"check", "check">>,
                   seen |-> <<NotSeen, NotSeen>>, start |-> Store,
                   trace |-> <<>>]
    /\ UNCHANGED <<variant, companies, employees, companySeq, employeeSeq>>

\* One of the two handlers runs its queries.
race_check ==
    /\ Racing
    /\ \E i \in 1..2 :
          /\ race.pc[i] = "check"
          /\ LET seen == TxCheck(variant, race.reqs[i], Store)
             IN race' = [race EXCEPT !.pc[i] = IF seen.go THEN "commit" ELSE "done",
                                     !.seen[i] = seen,
                                     !.trace = Append(@, i)]
    /\ UNCHANGED <<variant, companies, employees, companySeq, employeeSeq>>

\* One of the two handlers flushes and commits.
race_commit ==
    /\ Racing
    /\ \E i \in 1..2 :
          /\ race.pc[i] = "commit"
          /\ LET S == TxCommit(variant, race.reqs[i], race.seen[i], Store)
             IN /\ companies' = S.companies
                /\ employees' = S.employees
                /\ employeeSeq' = S.employeeSeq
          /\ race' = [race EXCEPT !.pc[i] = "done", !.trace = Append(@, i)]
    /\ UNCHANGED <<variant, companySeq>>

NextRace ==
    \/ seed_company
    \/ seed_employee
    \/ race_begin
    \/ race_check
    \/ race_commit

SpecRace == Init /\ [][NextRace]_vars

\* ============================================================== claims
Success == {200, 201, 204}
ClientErrors == 400..499

StoreKept(r) == r.companies = companies /\ r.employees = employees

\* C1: in every reachable state every stored employee's company_id is the
\* id of a stored company (no orphan, no NULL company_id).
C1_NoOrphanEmployee ==
    \A e \in DOMAIN employees : employees[e].company_id \in DOMAIN companies

\* Company 1 was created and deleted again, company 2 still has an employee
\* (input variant: creates, a cascading delete and the foreign key acted).
C1_Witness ==
    /\ variant = "input"
    /\ companySeq = 2
    /\ DOMAIN companies = {2}
    /\ \E e \in DOMAIN employees : employees[e].company_id = 2

\* C2: Create Employee naming a company that is not stored is rejected with
\* a client error and leaves the employee table as it was.
C2_UnknownCompanyRejected ==
    \A p \in EmployeeCreatePayloads :
        ~CompanyExists(p.company_id) =>
            LET r == route_create_employee(p)
            IN r.status \in ClientErrors /\ r.employees = employees

\* C3: Delete Company of a stored company, whatever number of employees it
\* has, removes the company and every employee of it, so that Get Employee
\* on each of them answers 404.
C3_DeleteCompanyCascades ==
    variant \in CrudVariants =>
        \A c \in DOMAIN companies :
            LET r == route_delete_company(c)
            IN /\ r.status \in Success
               /\ c \notin DOMAIN r.companies
               /\ \A e \in EmployeesOf(c) : e \notin DOMAIN r.employees

\* C4: an accepted Update Employee sets every field the body supplies to
\* the supplied value and keeps every other field and the id.
C4_UpdateAppliesSuppliedFields ==
    variant \in UpdateVariants =>
        \A id \in DOMAIN employees, p \in EmployeeUpdatePayloads :
            LET r == route_update_employee(id, p)
                old == employees[id]
            IN r.status = 200 =>
                /\ id \in DOMAIN r.employees
                /\ r.employees[id] =
                     [id |-> id,
                      company_id |-> IF "company_id" \in p.fields
                                     THEN p.company_id ELSE old.company_id,
                      first_name |-> IF "first_name" \in p.fields
                                     THEN p.first_name ELSE old.first_name,
                      email |-> IF "email" \in p.fields THEN p.email ELSE old.email,
                      hire_date |-> old.hire_date]

\* C5: Update Employee of a stored employee whose body supplies a company_id
\* (any value) that names no stored company is rejected with a validation
\* error, not 404, and leaves the employee as it was.
C5_UnknownCompanyOnUpdateRejected ==
    variant \in UpdateVariants =>
        \A id \in DOMAIN employees, p \in EmployeeUpdatePayloads :
            ("company_id" \in p.fields /\ ~CompanyExists(p.company_id)) =>
                LET r == route_update_employee(id, p)
                IN r.status \in {400, 422} /\ r.employees = employees

IsNotFound(r) == r.status = 404 /\ StoreKept(r)

\* C6: Get, Update and Delete of an id that is not stored answer 404,
\* whatever the body, and leave the store as it was.
C6_UnknownIdIsNotFound ==
    variant \in CrudVariants =>
        /\ \A id \in CompanyIds \ DOMAIN companies :
              /\ IsNotFound(route_get_company(id))
              /\ IsNotFound(route_delete_company(id))
              /\ variant \in UpdateVariants =>
                    \A p \in CompanyPayloads :
                        IsNotFound(route_update_company(id, p))
        /\ \A id \in EmployeeIds \ DOMAIN employees :
              /\ IsNotFound(route_get_employee(id))
              /\ IsNotFound(route_delete_employee(id))
              /\ variant \in UpdateVariants =>
                    \A p \in EmployeeUpdatePayloads :
                        IsNotFound(route_update_employee(id, p))

\* C7: Create Company succeeds for every body that supplies a name (with or
\* without registration_number and founded_date), and Get Company of the
\* returned id then returns the record the create returned.
C7_CreateThenGetCompany ==
    \A p \in CompanyPayloads :
        "name" \in p.fields =>
            LET r == route_create_company(p)
            IN /\ r.status \in {200, 201}
               /\ r.body # NoBody
               /\ variant \in CrudVariants =>
                     \A row \in r.body :
                         GetCompanyIn(variant, r.companies, row.id).body = r.body

\* C8: in every reachable state no two stored employees have the same email.
C8_UniqueEmails ==
    \A e1, e2 \in DOMAIN employees :
        e1 # e2 => employees[e1].email # employees[e2].email

\* Two employees are stored, and an update that would give one of them the
\* other's email is refused by the unique constraint.
C8_Witness ==
    /\ variant \in UpdateVariants
    /\ Cardinality(DOMAIN employees) = 2
    /\ \E id \in DOMAIN employees, p \in EmployeeUpdatePayloads :
          /\ "email" \in p.fields
          /\ \E o \in (DOMAIN employees) \ {id} : employees[o].email = p.email
          /\ route_update_employee(id, p).err = "unique"

\* C9: in every reachable state no two stored companies have the same
\* non-NULL registration_number; companies without one may be stored in any
\* number, and creating a company without one is never refused because of
\* the companies already stored.
C9_UniqueRegistrationNumbers ==
    /\ \A c1, c2 \in DOMAIN companies :
          (c1 # c2 /\ companies[c1].registration_number # NULL) =>
              companies[c1].registration_number # companies[c2].registration_number
    /\ \A p \in CompanyPayloads :
          ("name" \in p.fields /\ p.registration_number = NULL) =>
              LET r == route_create_company(p)
              IN /\ r.err # "unique"
                 /\ p.founded_date = NULL => r.status \in {200, 201}

\* Two companies are stored without a registration_number: the second
\* create without one was accepted.
C9_Witness ==
    \E c1, c2 \in DOMAIN companies :
        /\ c1 # c2
        /\ companies[c1].registration_number = NULL
        /\ companies[c2].registration_number = NULL

\* C10: a create or update that would duplicate a stored employee email or
\* a stored company registration_number is answered with a client error
\* (4xx) and leaves the store as it was.
C10_DuplicateIsClientError ==
    /\ \A p \in EmployeeCreatePayloads :
          (\E e \in DOMAIN employees : employees[e].email = p.email) =>
              LET r == route_create_employee(p)
              IN r.status \in ClientErrors /\ StoreKept(r)
    /\ \A p \in CompanyPayloads :
          (/\ "name" \in p.fields
           /\ p.registration_number # NULL
           /\ \E c \in DOMAIN companies :
                 companies[c].registration_number = p.registration_number) =>
              LET r == route_create_company(p)
              IN r.status \in ClientErrors /\ StoreKept(r)
    /\ variant \in UpdateVariants =>
          \A id \in DOMAIN employees, p \in EmployeeUpdatePayloads :
              (/\ "email" \in p.fields
               /\ \E e \in (DOMAIN employees) \ {id} :
                     employees[e].email = p.email) =>
                  LET r == route_update_employee(id, p)
                  IN r.status \in ClientErrors /\ StoreKept(r)

\* C11: Update Company of a stored company accepts a body that supplies any
\* subset of the company fields, a subset without name included, sets the
\* supplied fields and keeps every other field and the id.  Stated for the
\* companies stored without a founded_date and the bodies that supply none
\* and duplicate no stored registration_number.
C11_UpdateCompanyIsPartial ==
    variant \in UpdateVariants =>
        \A id \in DOMAIN companies, p \in CompanyPayloads :
            LET r == route_update_company(id, p)
                old == companies[id]
                duplicate ==
                    /\ "registration_number" \in p.fields
                    /\ p.registration_number # NULL
                    /\ \E o \in (DOMAIN companies) \ {id} :
                          companies[o].registration_number = p.registration_number
            IN (old.founded_date = NULL /\ "founded_date" \notin p.fields /\ ~duplicate) =>
                  /\ r.status = 200
                  /\ id \in DOMAIN r.companies
                  /\ r.companies[id] =
                       [id |-> id,
                        name |-> IF "name" \in p.fields THEN p.name ELSE old.name,
                        registration_number |->
                            IF "registration_number" \in p.fields
                            THEN p.registration_number
                            ELSE old.registration_number,
                        founded_date |-> old.founded_date]
                  /\ \A o \in (DOMAIN companies) \ {id} :
                        o \in DOMAIN r.companies /\ r.companies[o] = companies[o]
                  /\ r.employees = employees

\* C12: ids are server-generated, unique and immutable.  Every stored row
\* is filed under its own id; a create stores its row under an id no stored
\* row of that entity has, returns that id, keeps every stored row, and the
\* id it hands out does not depend on the body; an update keeps the id of
\* the row it updates and the set of stored ids.
C12_IdsGeneratedUniqueImmutable ==
    /\ \A c \in DOMAIN companies : companies[c].id = c
    /\ \A e \in DOMAIN employees : employees[e].id = e
    /\ \A p \in CompanyPayloads :
          LET r == route_create_company(p)
          IN /\ \A c \in DOMAIN companies :
                    c \in DOMAIN r.companies /\ r.companies[c] = companies[c]
             /\ \A c \in DOMAIN r.companies : r.companies[c].id = c
             /\ \A row \in r.body :
                    /\ row.id \notin DOMAIN companies
                    /\ row.id \in DOMAIN r.companies
                    /\ r.companies[row.id] = row
             /\ \A q \in CompanyPayloads :
                    \A row \in r.body, other \in route_create_company(q).body :
                        row.id = other.id
    /\ \A p \in EmployeeCreatePayloads :
          LET r == route_create_employee(p)
          IN /\ \A e \in DOMAIN employees :
                    e \in DOMAIN r.employees /\ r.employees[e] = employees[e]
             /\ \A e \in DOMAIN r.employees : r.employees[e].id = e
             /\ \A row \in r.body :
                    /\ row.id \notin DOMAIN employees
                    /\ row.id \in DOMAIN r.employees
                    /\ r.employees[row.id] = row
             /\ \A q \in EmployeeCreatePayloads :
                    \A row \in r.body, other \in route_create_employee(q).body :
                        row.id = other.id
    /\ variant \in UpdateVariants =>
          /\ \A id \in DOMAIN companies, p \in CompanyPayloads :
                LET r == route_update_company(id, p)
                IN /\ DOMAIN r.companies = DOMAIN companies
                   /\ r.companies[id].id = id
                   /\ \A row \in r.body : row.id = id
          /\ \A id \in DOMAIN employees, p \in EmployeeUpdatePayloads :
                LET r == route_update_employee(id, p)
                IN /\ DOMAIN r.employees = DOMAIN employees
                   /\ r.employees[id].id = id
                   /\ \A row \in r.body : row.id = id

\* Both tables hold two rows, so a second create of each entity ran next to
\* a stored row, in a variant that also serves updates.
C12_Witness ==
    /\ variant \in UpdateVariants
    /\ Cardinality(DOMAIN companies) = 2
    /\ Cardinality(DOMAIN employees) = 2

\* The page holds every row of the table exactly once, by increasing id,
\* which is the order the rows were inserted in.
ListsWholeTable(r, table) ==
    /\ r.status = 200
    /\ Len(r.body) = Cardinality(DOMAIN table)
    /\ \A i \in DOMAIN table : \E k \in 1..Len(r.body) : r.body[k] = table[i]
    /\ \A k \in 1..Len(r.body) : \A j \in 1..Len(r.body) :
          k < j => r.body[k].id < r.body[j].id

\* C13: List Companies and List Employees without pagination parameters
\* answer with every stored row of the entity exactly once, in insertion
\* order, however many rows are stored.
C13_ListReturnsEveryRecord ==
    /\ ListsWholeTable(route_list_companies(NoPagination), companies)
    /\ ListsWholeTable(route_list_employees(NoPagination), employees)

\* C14: every Create Company and Create Employee request that succeeds is
\* answered 201 with the created record, generated id included, and that
\* record is the one stored.
C14_CreateAnswers201 ==
    /\ \A p \in CompanyPayloads :
          LET r == route_create_company(p)
          IN r.status \in Success =>
                /\ r.status = 201
                /\ \E row \in r.body :
                      row.id \in DOMAIN r.companies /\ r.companies[row.id] = row
    /\ \A p \in EmployeeCreatePayloads :
          LET r == route_create_employee(p)
          IN r.status \in Success =>
                /\ r.status = 201
                /\ \E row \in r.body :
                      row.id \in DOMAIN r.employees /\ r.employees[row.id] = row

\* C16: a successful Delete Employee of e removes e and nothing else: every
\* company and every other employee stays as it was.  A successful Delete
\* Company of c keeps every other company and every employee whose
\* company_id is not c as it was.
C16_DeleteRemovesOnlyTarget ==
    variant \in CrudVariants =>
        /\ \A e \in DOMAIN employees :
              LET r == route_delete_employee(e)
              IN r.status \in Success =>
                    /\ r.companies = companies
                    /\ DOMAIN r.employees = (DOMAIN employees) \ {e}
                    /\ \A o \in (DOMAIN employees) \ {e} :
                          r.employees[o] = employees[o]
        /\ \A c \in DOMAIN companies :
              LET r == route_delete_company(c)
              IN r.status \in Success =>
                    /\ c \notin DOMAIN r.companies
                    /\ \A o \in (DOMAIN companies) \ {c} :
                          o \in DOMAIN r.companies /\ r.companies[o] = companies[o]
                    /\ \A e \in DOMAIN employees :
                          employees[e].company_id # c =>
                              e \in DOMAIN r.employees /\ r.employees[e] = employees[e]

\* Company 1 and employee 1 were created and are gone; company 2 and its
\* employee 2 are still stored, and deleting either of them would succeed.
C16_Witness ==
    /\ variant = "input"
    /\ companySeq = 2
    /\ employeeSeq = 2
    /\ DOMAIN companies = {2}
    /\ DOMAIN employees = {2}
    /\ employees[2].company_id = 2
    /\ route_delete_employee(2).status \in Success
    /\ route_delete_company(2).status \in Success

\* Served alone, the two steps of a request leave the tables the handler
\* of the request leaves.
TxAgreesWithHandlers ==
    /\ \A a \in EmployeeWrites(variant) :
          LET S == TxAtomic(variant, a, Store)
              r == IF a.op = "create_employee"
                   THEN route_create_employee(
                            [company_id |-> a.p.company_id,
                             first_name |-> a.p.first_name,
                             email |-> a.p.email, hire_date |-> a.p.hire_date])
                   ELSE route_update_employee(a.id,
                            [fields |-> a.p.fields, company_id |-> a.p.company_id,
                             first_name |-> a.p.first_name, email |-> a.p.email])
          IN S.companies = r.companies /\ S.employees = r.employees
    /\ \A b \in CompanyDeletes(variant) :
          LET S == TxAtomic(variant, b, Store)
              r == route_delete_company(b.id)
          IN S.companies = r.companies /\ S.employees = r.employees

SerialOutcomes(v, a, b, S) ==
    { TxAtomic(v, b, TxAtomic(v, a, S)), TxAtomic(v, a, TxAtomic(v, b, S)) }

====
